---- MODULE Spec2Model ----
(***************************************************************************)
(* A model of dcorm: the ORM object (registry, instance state store,       *)
(* reference descriptors, CRUD engine), the connection pool, and the       *)
(* Select query builder.                                                   *)
(*                                                                         *)
(* Every operation of the program is one action.  An operation is computed *)
(* on a "world" record W (the mutable objects the call can touch) by       *)
(* operators that follow the source statement by statement and return the  *)
(* world after the call together with the exception it raised ("" for a    *)
(* normal return).  lastOp records the call just made: its arguments, its  *)
(* outcome and the statements it sent to the store, in order.              *)
(***************************************************************************)
EXTENDS Integers, Sequences, FiniteSets, TLC

\* ------------------------------------------------------------------ bounds
\* Heap slots for live record instances.
MaxInst == 3
\* Rows per table (and so the largest row id).
MaxRows == 2
\* Operations per behaviour.
MaxOps == 5
\* Operations per behaviour that changes reference fields of stored instances.
MaxWriteOps == 3
\* The size given to ConnectionPool, and the connections the factory can make.
PoolSize == 2
MaxConns == 4
\* Operations per behaviour of the connection pool.
MaxPoolOps == 6
\* Operations per behaviour that reads, changes and deletes stored rows.
MaxCrudOps == 4
MaxLateOps == 4
\* Operations per behaviour that reads, assigns and clears reference fields.
MaxAccessOps == 4
\* Query builders, and operations per behaviour on them.
MaxSel == 3
MaxQueryOps == 3

\* ------------------------------------------------------------------ values
\* A Python value held by a field, a column or a state record.
\*   t = "none"   None
\*   t = "absent" no entry (a missing dict key / attribute)
\*   t = "int"    the integer v
\*   t = "dt"     a datetime of instant v; z = "aware" or "naive"
\*   t = "obj"    the record instance in heap slot v
\*   t = "key"    KeyType(v)
Val(t, v, z) == [t |-> t, v |-> v, z |-> z]
None == Val("none", 0, "")
Absent == Val("absent", 0, "")
IntV(n) == Val("int", n, "")
DtV(n, z) == Val("dt", n, z)
Obj(i) == Val("obj", i, "")
Key(k) == Val("key", k, "")

\* ------------------------------------------------------------------ schema
\* The record types of the program under test.  Foo is the self-referencing
\* type of the forward-reference tests, Bar a container of two Foo references,
\* the first without a declared default, the second with default None.
Classes == {"Foo", "Bar"}

Fld(name, kind, target, optional, dflt) ==
    [name |-> name, kind |-> kind, target |-> target, optional |-> optional, dflt |-> dflt]

\* get_instance_fields: the ordered fields of a class (name, non_null_type).
\* kind is the non-null type for a built-in type and "ref" for a class, whose
\* name is target; optional says whether the type hint is Optional[...]; dflt
\* says whether the class body declares a default (None).
Fields(cls) ==
    IF cls = "Foo"
    THEN << Fld("a", "int", "", FALSE, FALSE),
            Fld("parent", "ref", "Foo", TRUE, TRUE) >>
    ELSE << Fld("stamp", "datetime", "", FALSE, FALSE),
            Fld("some_foo", "ref", "Foo", TRUE, FALSE),
            Fld("other_foo", "ref", "Foo", TRUE, TRUE) >>

NFields(cls) == Len(Fields(cls))
FieldNames == {"a", "parent", "stamp", "some_foo", "other_foo"}
RefNames == {"parent", "some_foo", "other_foo"}
FieldIdx(cls, name) == CHOOSE k \in 1..NFields(cls) : Fields(cls)[k].name = name
OwnNames(cls) == {Fields(cls)[k].name : k \in 1..NFields(cls)}
OwnRefs(cls) == {Fields(cls)[k].name : k \in {j \in 1..NFields(cls) : Fields(cls)[j].kind = "ref"}}

\* ------------------------------------------------------------------ state
VARIABLES
    reg,        \* ORM.registered_classes: cls -> "absent" | "no_desc" | "has_desc"
    attr,       \* the class attribute of each reference field:
                \*   "absent" | "default" (None) | "ref" | "ref_default"
    installs,   \* how many times a Reference was installed on each field
    heap,       \* slot -> the live instance there (cls, __dict__), cls = "" if free
    known,      \* ORM.known_objects: slot -> state record (present, rowid, ov)
    tables,     \* cls -> the table (exists, cols, rows)
    lastOp,     \* the last call: kind, arguments, exception, result, statements
    nops,       \* number of calls made
    roots,      \* the instances the program holds a reference to
    pool,       \* ConnectionPool._pool: the idle connections, last in first out
    holders,    \* connection -> number of context managers handed out for it
    made,       \* number of calls of the connection factory
    inuse,      \* connection -> calls of use() for it not yet followed by a release()
    plast,      \* the last pool call and the connection calls it made
    sel,        \* the Select objects built so far
    called,     \* the Select objects that have been executed
    qlast       \* the last call on a Select and its outcome

ormVars == << reg, attr, installs, heap, known, tables, lastOp, nops, roots >>
poolVars == << pool, holders, made, inuse, plast >>
queryVars == << sel, called, qlast >>
vars == << ormVars, poolVars, queryVars >>

Slots == 1..MaxInst
RowIds == 1..MaxRows

NoDict == [f \in FieldNames |-> Absent]
NoInst == [cls |-> "", dict |-> NoDict]
NoOv == [f \in RefNames |-> Absent]
\* A known_objects entry: rowid is None or Key(k); ov holds the reference
\* fields' values kept by the descriptors.
NoState == [present |-> FALSE, rowid |-> None, ov |-> NoOv]
NewState == [present |-> TRUE, rowid |-> None, ov |-> NoOv]
NoRow == [f \in FieldNames |-> Absent]
NoCols == [f \in FieldNames |-> ""]
NoTable == [exists |-> FALSE, cols |-> NoCols, rows |-> [r \in RowIds |-> NoRow]]

\* ------------------------------------------------------------------ worlds
\* The objects a call can change, and the statements it has sent so far.
World ==
    [reg |-> reg, attr |-> attr, installs |-> installs, heap |-> heap,
     known |-> known, tables |-> tables, log |-> << >>]

Ok(w, ret) == [w |-> w, err |-> "", ret |-> ret]
Raise(w, e) == [w |-> w, err |-> e, ret |-> None]

\* A local name: F applied to the value x, computed once.
With(x, F(_)) == F(x)

\* One statement or connection call: op on table through connection conn.
Ev(op, table, conn, arg) == [op |-> op, table |-> table, conn |-> conn, arg |-> arg]
Emit(w, e) == [w EXCEPT !.log = Append(@, e)]

HasRow(w, cls, k) == k \in RowIds /\ w.tables[cls].rows[k] # NoRow
RowSet(w, cls) == {k \in RowIds : w.tables[cls].rows[k] # NoRow}
SetMax(S) == IF S = {} THEN 0 ELSE CHOOSE m \in S : \A n \in S : n <= m

has_orm(w, cls) == cls \in Classes /\ w.reg[cls] # "absent"

\* ORM.connection_context and ConnectionContextMgr.__enter__: the connection
\* the caller supplied, or one taken from the pool.
CtxEnter(w, conn) == IF conn = "none" THEN Emit(w, Ev("use", "", "pool", 0)) ELSE w
ConnOf(conn) == IF conn = "none" THEN "pool" ELSE conn
\* ConnectionContextMgr.__exit__: commit or rollback, then release.
CtxExit(w, conn, failed) ==
    Emit(Emit(w, Ev(IF failed THEN "rollback" ELSE "commit", "", ConnOf(conn), 0)),
         Ev("release", "", ConnOf(conn), 0))

\* ORM._get_dcorm_state
get_dcorm_state(w, i) ==
    IF w.known[i].present THEN w ELSE [w EXCEPT !.known[i] = NewState]

\* A variant of record_rowid that creates the state record and forgets the row id
record_rowid_forgets(w, i, row_id) == get_dcorm_state(w, i)

\* self._get_dcorm_state(instance)[SELF_ROW_ID] = row_id
record_rowid(w, i, row_id) ==
    [get_dcorm_state(w, i) EXCEPT !.known[i].rowid = Key(row_id)]

\* ORM._add_descriptors_if_missing, from field k on.  hasattr(cls, name) on
\* an installed Reference calls Reference.__get__(None, cls), whose
\* _get_dcorm_state(None) raises TypeError (no weak reference to None).
RECURSIVE add_descriptors_from(_, _, _)
add_descriptors_from(w, cls, k) ==
    IF k > NFields(cls)
    THEN Ok([w EXCEPT !.reg[cls] = "has_desc"], None)
    ELSE LET f == Fields(cls)[k] IN
         IF has_orm(w, f.target)
         THEN IF w.attr[cls][f.name] \in {"ref", "ref_default"}
              THEN Raise(w, "TypeError")
              ELSE add_descriptors_from(
                       [w EXCEPT !.attr[cls][f.name] =
                                     IF @ = "default" THEN "ref_default" ELSE "ref",
                                 !.installs[cls][f.name] = @ + 1],
                       cls, k + 1)
         ELSE add_descriptors_from(w, cls, k + 1)

add_descriptors_if_missing(w, cls) ==
    IF w.reg[cls] = "has_desc" THEN Ok(w, None) ELSE add_descriptors_from(w, cls, 1)

\* ORM._get_class_fields
get_class_fields(w, cls) ==
    IF w.reg[cls] = "absent" THEN Raise(w, "TypeError")
    ELSE add_descriptors_if_missing(w, cls)

\* Reference.fix_preexisting: a value that sits in the instance's __dict__ and
\* is not None moves to the state record.
fix_preexisting(w, i, f) ==
    LET pre == w.heap[i].dict[f] IN
    IF pre.t \notin {"absent", "none"}
    THEN [w EXCEPT !.known[i].ov[f] = pre, !.heap[i].dict[f] = Absent]
    ELSE w

HasDescriptor(w, cls, f) == f \in RefNames /\ w.attr[cls][f] \in {"ref", "ref_default"}

\* Reference.__get__ up to the dereference: the stored value or key.
reference_value(w, i, f) ==
    With(fix_preexisting(get_dcorm_state(w, i), i, f), LAMBDA w1 :
    IF w1.attr[w1.heap[i].cls][f] = "ref_default"
    THEN Ok(w1, IF w1.known[i].ov[f] = Absent THEN None ELSE w1.known[i].ov[f])
    ELSE IF w1.known[i].ov[f] = Absent THEN Raise(w1, "KeyError")
    ELSE Ok(w1, w1.known[i].ov[f]))

\* getattr(instance, name): through the descriptor when the class has one,
\* else the instance's __dict__, else the class attribute (a declared default).
getattr(w, i, f) ==
    LET cls == w.heap[i].cls IN
    IF HasDescriptor(w, cls, f) THEN reference_value(w, i, f)
    ELSE IF w.heap[i].dict[f] # Absent THEN Ok(w, w.heap[i].dict[f])
    ELSE IF f \in RefNames /\ w.attr[cls][f] = "default" THEN Ok(w, None)
    ELSE Raise(w, "AttributeError")

\* Reference.__set__ / plain attribute assignment: setattr(instance, name, v)
setattr(w, i, f, v) ==
    IF HasDescriptor(w, w.heap[i].cls, f)
    THEN [fix_preexisting(get_dcorm_state(w, i), i, f) EXCEPT !.known[i].ov[f] = v]
    ELSE [w EXCEPT !.heap[i].dict[f] = v]

\* A variant of delattr that succeeds and removes nothing
delattr_keeps(w, i, f) == Ok(w, None)

\* Reference.__delete__ / plain attribute deletion: delattr(instance, name)
delattr(w, i, f) ==
    IF HasDescriptor(w, w.heap[i].cls, f)
    THEN With(fix_preexisting(get_dcorm_state(w, i), i, f), LAMBDA w1 :
         IF w1.known[i].ov[f] = Absent THEN Raise(w1, "KeyError")
         ELSE Ok([w1 EXCEPT !.known[i].ov[f] = Absent], None))
    ELSE IF w.heap[i].dict[f] = Absent THEN Raise(w, "AttributeError")
    ELSE Ok([w EXCEPT !.heap[i].dict[f] = Absent], None)

\* The value sqlite3 stores for a bound parameter: integers and NULL as they
\* are, a row id as its integer, a timestamp as the ISO-8601 text of its
\* instant.
ToColumn(v) ==
    IF v.t = "dt" THEN Val("iso", v.v, "")
    ELSE IF v.t = "key" THEN IntV(v.v)
    ELSE v

\* A variant of structure that leaves a registered class's column an integer
structure_plain(datum, f) ==
    IF datum.t = "none" THEN (IF f.optional THEN None ELSE Val("error", 0, "TypeError"))
    ELSE IF f.kind = "datetime" THEN DtV(datum.v, "aware")
    ELSE IntV(datum.v)

\* sql_converter.structure(datum, type hint) as registered in ORM.__init__ and
\* ORM.orm_dataclass: Optional passes None through; int(v); a timestamp is
\* parsed and given the local zone, so it is always aware; a registered class
\* structures to KeyType(v).
structure(datum, f) ==
    IF datum.t = "none" THEN (IF f.optional THEN None ELSE Val("error", 0, "TypeError"))
    ELSE IF f.kind = "int" THEN IntV(datum.v)
    ELSE IF f.kind = "datetime" THEN DtV(datum.v, "aware")
    ELSE Key(datum.v)

\* The SELECT ... WHERE _rowid_ = ? of ORM.get_by_id, up to fetchall.
select_by_id(w, cls, id, conn) ==
    With(get_class_fields(w, cls), LAMBDA g :
    IF g.err # "" THEN g
    ELSE With(Emit(CtxEnter(g.w, conn), Ev("SELECT", cls, ConnOf(conn), id)), LAMBDA w1 :
         IF ~w1.tables[cls].exists THEN Raise(CtxExit(w1, conn, TRUE), "OperationalError")
         ELSE IF ~HasRow(w1, cls, id) THEN Raise(CtxExit(w1, conn, FALSE), "StopIteration")
         ELSE Ok(CtxExit(w1, conn, FALSE), Key(id))))

\* ORM._query_results_to_instances for one row, the new instance in slot s:
\* cls(*converted) assigns every field in order, then the row id is recorded.
RECURSIVE construct_from(_, _, _, _)
construct_from(w, s, vals, k) ==
    IF k > Len(vals) THEN w
    ELSE construct_from(setattr(w, s, Fields(w.heap[s].cls)[k].name, vals[k]), s, vals, k + 1)

construct(w, s, cls, vals) ==
    construct_from([w EXCEPT !.heap[s] = [cls |-> cls, dict |-> NoDict],
                             !.known[s] = NoState], s, vals, 1)

Converted(w, cls, id) ==
    [k \in 1..NFields(cls) |-> structure(w.tables[cls].rows[id][Fields(cls)[k].name], Fields(cls)[k])]

\* A variant of query_result_to_instance that records row id 1 for every row
query_result_to_instance_first(w, s, cls, id) ==
    With(Converted(w, cls, id), LAMBDA conv :
    IF \E k \in 1..NFields(cls) : conv[k].t = "error" THEN Raise(w, "TypeError")
    ELSE Ok(record_rowid(construct(w, s, cls, conv), s, 1), Obj(s)))

query_result_to_instance(w, s, cls, id) ==
    With(Converted(w, cls, id), LAMBDA conv :
    IF \E k \in 1..NFields(cls) : conv[k].t = "error" THEN Raise(w, "TypeError")
    ELSE Ok(record_rowid(construct(w, s, cls, conv), s, id), Obj(s)))

\* A variant of IsInstance that accepts an instance of any class
IsInstance_any(w, v, cls) == v.t = "obj"

\* isinstance(field_value, field.non_null_type) for a value read from a field
IsInstance(w, v, cls) == v.t = "obj" /\ w.heap[v.v].cls = cls

\* ORM.insert and ORM._astuple call each other.  stack is the set of instances
\* whose insert has been entered and has not returned: entering insert again
\* for one of them repeats the same descent without end, which Python ends
\* with RecursionError.  A row id beyond MaxRows ends the call with "Bound",
\* which no action accepts.
RECURSIVE insert(_, _, _, _)
RECURSIVE astuple_value(_, _, _, _)
RECURSIVE astuple_from(_, _, _, _, _)

\* The value yielded for a field value v read in the loop of ORM._astuple
astuple_yield(w, v, target, stack) ==
    IF v.t = "none" \/ ~has_orm(w, target) THEN Ok(w, v)
    ELSE IF ~IsInstance(w, v, target) THEN Raise(w, "TypeError")
    ELSE With(get_dcorm_state(w, v.v), LAMBDA w2 :
         IF w2.known[v.v].rowid = None
         THEN insert(w2, v.v, "none", stack)
         ELSE Ok(w2, w2.known[v.v].rowid))

\* One turn of the loop of ORM._astuple: the value yielded for field f.  A key
\* held by the descriptor is dereferenced by Reference.__get__ (StopIteration
\* inside the generator surfaces as RuntimeError), and the instance just
\* fetched is of the field's class with its row id known.
astuple_value(w, i, f, stack) ==
    With(getattr(w, i, f.name), LAMBDA g :
    IF g.err # "" THEN g
    ELSE IF HasDescriptor(w, w.heap[i].cls, f.name) /\ g.ret.t = "key"
    THEN With(select_by_id(g.w, f.target, g.ret.v, "none"), LAMBDA d :
         IF d.err = "StopIteration" THEN Raise(d.w, "RuntimeError") ELSE d)
    ELSE astuple_yield(g.w, g.ret, f.target, stack))

\* ORM._astuple, from field k on; acc holds the values yielded so far.
astuple_from(w, i, k, acc, stack) ==
    IF k > NFields(w.heap[i].cls) THEN [w |-> w, err |-> "", ret |-> None, tuple |-> acc]
    ELSE With(astuple_value(w, i, Fields(w.heap[i].cls)[k], stack), LAMBDA y :
         IF y.err # "" THEN [w |-> y.w, err |-> y.err, ret |-> None, tuple |-> acc]
         ELSE astuple_from(y.w, i, k + 1, Append(acc, y.ret), stack))

\* A variant of RowOf that writes NULL in every column
RowOf_nulls(cls, tuple) ==
    [f \in FieldNames |-> IF f \in OwnNames(cls) THEN None ELSE Absent]

\* The row written from the parameter tuple
RowOf(cls, tuple) ==
    [f \in FieldNames |->
        IF f \in OwnNames(cls) THEN ToColumn(tuple[FieldIdx(cls, f)]) ELSE Absent]

\* ORM.insert
insert(w, i, conn, stack) ==
    IF i \in stack THEN Raise(w, "RecursionError")
    ELSE
    With(astuple_from(w, i, 1, << >>, stack \cup {i}), LAMBDA p :
    IF p.err # "" THEN Raise(p.w, p.err)
    ELSE
    With(Emit(CtxEnter(p.w, conn), Ev("INSERT", w.heap[i].cls, ConnOf(conn), i)), LAMBDA w1 :
    With(SetMax(RowSet(w1, w.heap[i].cls)) + 1, LAMBDA row_id :
    IF ~w1.tables[w.heap[i].cls].exists
    THEN Raise(CtxExit(w1, conn, TRUE), "OperationalError")
    ELSE IF row_id > MaxRows THEN Raise(w1, "Bound")
    ELSE Ok(record_rowid(
                CtxExit([w1 EXCEPT !.tables[w.heap[i].cls].rows[row_id] =
                                       RowOf(w.heap[i].cls, p.tuple)], conn, FALSE),
                i, row_id),
            Key(row_id)))))

\* A variant of update_by_id that sends the UPDATE and leaves the row as it was
update_by_id_skips(w, i, id, conn) ==
    With(astuple_from(w, i, 1, << >>, {}), LAMBDA p :
    IF p.err # "" THEN Raise(p.w, p.err)
    ELSE Ok(CtxExit(Emit(CtxEnter(p.w, conn), Ev("UPDATE", w.heap[i].cls, ConnOf(conn), id)),
                    conn, FALSE), None))

\* ORM.update_by_id
update_by_id(w, i, id, conn) ==
    With(astuple_from(w, i, 1, << >>, {}), LAMBDA p :
    IF p.err # "" THEN Raise(p.w, p.err)
    ELSE
    With(Emit(CtxEnter(p.w, conn), Ev("UPDATE", w.heap[i].cls, ConnOf(conn), id)), LAMBDA w1 :
    IF ~w1.tables[w.heap[i].cls].exists
    THEN Raise(CtxExit(w1, conn, TRUE), "OperationalError")
    ELSE Ok(CtxExit(IF HasRow(w1, w.heap[i].cls, id)
                    THEN [w1 EXCEPT !.tables[w.heap[i].cls].rows[id] =
                                        RowOf(w.heap[i].cls, p.tuple)]
                    ELSE w1, conn, FALSE), None)))

\* A variant of get_rowid that answers row id 1 for an instance that has none
get_rowid_lenient(w, i) ==
    Ok(get_dcorm_state(w, i),
       IF get_dcorm_state(w, i).known[i].rowid = None THEN Key(1)
       ELSE get_dcorm_state(w, i).known[i].rowid)

\* ORM.get_rowid
get_rowid(w, i) ==
    LET w1 == get_dcorm_state(w, i) IN
    IF w1.known[i].rowid = None THEN Raise(w1, "ValueError")
    ELSE Ok(w1, w1.known[i].rowid)

\* ORM.update
update(w, i, conn) ==
    With(get_rowid(w, i), LAMBDA r :
    IF r.err # "" THEN r ELSE update_by_id(r.w, i, r.ret.v, conn))

\* A variant of delete_by_id that sends the DELETE and keeps the row
delete_by_id_keeps(w, cls, id, conn) ==
    With(get_class_fields(w, cls), LAMBDA g :
    IF g.err # "" THEN g
    ELSE Ok(CtxExit(Emit(CtxEnter(g.w, conn), Ev("DELETE", cls, ConnOf(conn), id)),
                    conn, FALSE), None))

\* ORM.delete_by_id
delete_by_id(w, cls, id, conn) ==
    With(get_class_fields(w, cls), LAMBDA g :
    IF g.err # "" THEN g
    ELSE
    With(Emit(CtxEnter(g.w, conn), Ev("DELETE", cls, ConnOf(conn), id)), LAMBDA w1 :
    IF ~w1.tables[cls].exists THEN Raise(CtxExit(w1, conn, TRUE), "OperationalError")
    ELSE Ok(CtxExit(IF HasRow(w1, cls, id)
                    THEN [w1 EXCEPT !.tables[cls].rows[id] = NoRow]
                    ELSE w1, conn, FALSE), None)))

\* ORM.delete
delete(w, i, conn) ==
    With(get_rowid(w, i), LAMBDA r :
    IF r.err # "" THEN r ELSE delete_by_id(r.w, w.heap[i].cls, r.ret.v, conn))

\* SQLITE_TYPE: the column type of a Python type; any other type is a BLOB.
SQLITE_TYPE(t) ==
    IF t = "int" THEN "INTEGER"
    ELSE IF t = "float" THEN "REAL"
    ELSE IF t \in {"str", "date", "datetime"} THEN "TEXT"
    ELSE "BLOB"

\* map_type in ORM.create
map_type(w, f) == IF has_orm(w, f.target) THEN "KeyType" ELSE f.kind

ColumnSpecs(w, cls) ==
    [n \in FieldNames |->
        IF n \in OwnNames(cls)
        THEN SQLITE_TYPE(map_type(w, Fields(cls)[FieldIdx(cls, n)]))
        ELSE ""]

\* ORM.create
create(w, cls, conn, drop_if_exists) ==
    With(get_class_fields(w, cls), LAMBDA g :
    IF g.err # "" THEN g
    ELSE
    With(Emit(IF drop_if_exists
              THEN Emit([CtxEnter(g.w, conn) EXCEPT !.tables[cls] = NoTable],
                        Ev("DROP", cls, ConnOf(conn), 0))
              ELSE CtxEnter(g.w, conn),
              Ev("CREATE", cls, ConnOf(conn), 0)), LAMBDA w3 :
    IF w3.tables[cls].exists THEN Raise(CtxExit(w3, conn, TRUE), "OperationalError")
    ELSE Ok(CtxExit([w3 EXCEPT !.tables[cls] =
                        [exists |-> TRUE, cols |-> ColumnSpecs(g.w, cls),
                         rows |-> [r \in RowIds |-> NoRow]]], conn, FALSE), None)))

\* ------------------------------------------------------------------ calls
FreeSlots == {s \in Slots : heap[s].cls = ""}
Live == Slots \ FreeSlots
NextFree(w) == CHOOSE s \in Slots : w.heap[s].cls = "" /\ \A t \in Slots : w.heap[t].cls = "" => s <= t
FreeIn(w) == {s \in Slots : w.heap[s].cls = ""}

\* The heap slots a call filled: the instances it constructed.
Made(w) == {s \in Slots : heap[s].cls = "" /\ w.heap[s].cls # ""}

Op(kind, cls, inst, fld, id, conn, r) ==
    [kind |-> kind, cls |-> cls, inst |-> inst, fld |-> fld, id |-> id, conn |-> conn,
     err |-> r.err, ret |-> r.ret, log |-> r.w.log, made |-> Made(r.w)]

\* A call returns r: the world after the call becomes the state.
Commit(r, kind, cls, inst, fld, id, conn) ==
    /\ nops < MaxOps
    /\ r.err # "Bound"
    /\ reg' = r.w.reg
    /\ attr' = r.w.attr
    /\ installs' = r.w.installs
    /\ heap' = r.w.heap
    /\ known' = r.w.known
    /\ tables' = r.w.tables
    /\ lastOp' = Op(kind, cls, inst, fld, id, conn, r)
    /\ nops' = nops + 1
    /\ roots' = roots \cup Made(r.w)
    /\ UNCHANGED << poolVars, queryVars >>

Conns == {"none", "caller"}
Ints == {1, 2}
Stamps == {DtV(0, "aware"), DtV(0, "naive")}
RefInputs == {None} \cup {Obj(j) : j \in roots}

\* The argument tuples of cls(...)
Inputs(cls) ==
    IF cls = "Foo"
    THEN {<< IntV(n), p >> : n \in Ints, p \in RefInputs}
    ELSE {<< d, x, y >> : d \in Stamps, x \in RefInputs, y \in RefInputs}

\* instance = cls(*vals) in user code
New(cls, vals) ==
    /\ FreeSlots # {}
    /\ Commit(Ok(construct(World, NextFree(World), cls, vals), Obj(NextFree(World))),
              "new", cls, NextFree(World), "", 0, "none")

Create(cls, drop) ==
    Commit(create(World, cls, "none", drop), "create", cls, 0, "", 0, "none")

Insert(i, conn) ==
    Commit(insert(World, i, conn, {}), "insert", heap[i].cls, i, "", 0, conn)

\* ORM.get_by_id, the new instance in slot s
get_by_id(w, s, cls, id, conn) ==
    With(select_by_id(w, cls, id, conn), LAMBDA q :
    IF q.err # "" THEN q ELSE query_result_to_instance(q.w, s, cls, id))

GetById(cls, id) ==
    /\ FreeSlots # {}
    /\ Commit(get_by_id(World, NextFree(World), cls, id, "none"),
              "get_by_id", cls, 0, "", id, "none")

\* The iterator ORM._query_results_to_instances consumed: one new instance per
\* row, by row id
RECURSIVE instances_from(_, _, _)
instances_from(w, cls, ids) ==
    IF ids = {} THEN Ok(w, None)
    ELSE With(query_result_to_instance(w, NextFree(w), cls,
                                       CHOOSE k \in ids : \A m \in ids : k <= m), LAMBDA r :
         IF r.err # "" THEN r
         ELSE instances_from(r.w, cls, ids \ {CHOOSE k \in ids : \A m \in ids : k <= m}))

\* ORM.get_all
get_all(w, cls, conn) ==
    With(get_class_fields(w, cls), LAMBDA g :
    IF g.err # "" THEN g
    ELSE With(Emit(CtxEnter(g.w, conn), Ev("SELECT", cls, ConnOf(conn), 0)), LAMBDA w1 :
         IF ~w1.tables[cls].exists THEN Raise(CtxExit(w1, conn, TRUE), "OperationalError")
         ELSE instances_from(CtxExit(w1, conn, FALSE), cls, RowSet(w1, cls))))

GetAll(cls) ==
    /\ Cardinality(RowSet(World, cls)) <= Cardinality(FreeSlots)
    /\ Commit(get_all(World, cls, "none"), "get_all", cls, 0, "", 0, "none")

UpdateById(i, id) ==
    Commit(update_by_id(World, i, id, "none"), "update_by_id", heap[i].cls, i, "", id, "none")

Update(i) ==
    Commit(update(World, i, "none"), "update", heap[i].cls, i, "", 0, "none")

DeleteById(cls, id) ==
    Commit(delete_by_id(World, cls, id, "none"), "delete_by_id", cls, 0, "", id, "none")

Delete(i) ==
    Commit(delete(World, i, "none"), "delete", heap[i].cls, i, "", 0, "none")

\* A variant of read_attr that keeps the fetched instance in the state record
read_attr_keeps(w, s, i, f) ==
    With(getattr(w, i, f), LAMBDA g :
    IF g.err = "" /\ HasDescriptor(w, w.heap[i].cls, f) /\ g.ret.t = "key"
    THEN With(get_by_id(g.w, s, Fields(w.heap[i].cls)[FieldIdx(w.heap[i].cls, f)].target,
                        g.ret.v, "none"), LAMBDA r :
         IF r.err # "" THEN r ELSE Ok([r.w EXCEPT !.known[i].ov[f] = r.ret], r.ret))
    ELSE g)

\* Reference.__get__ / plain attribute read: instance.<f> in user code; an
\* instance fetched through a key goes to slot s
read_attr(w, s, i, f) ==
    With(getattr(w, i, f), LAMBDA g :
    IF g.err = "" /\ HasDescriptor(w, w.heap[i].cls, f) /\ g.ret.t = "key"
    THEN get_by_id(g.w, s, Fields(w.heap[i].cls)[FieldIdx(w.heap[i].cls, f)].target,
                   g.ret.v, "none")
    ELSE g)

ReadRef(i, f) ==
    /\ FreeSlots # {}
    /\ f \in OwnRefs(heap[i].cls)
    /\ Commit(read_attr(World, NextFree(World), i, f), "read", heap[i].cls, i, f, 0, "none")

\* instance.<f> = v in user code; the value assigned is kept as the call's result
WriteRef(i, f, v) ==
    /\ f \in OwnRefs(heap[i].cls)
    /\ Commit(Ok(setattr(World, i, f, v), v), "write", heap[i].cls, i, f, 0, "none")

\* del instance.<f> in user code
ClearRef(i, f) ==
    /\ f \in OwnRefs(heap[i].cls)
    /\ Commit(delattr(World, i, f), "clear", heap[i].cls, i, f, 0, "none")

\* instance.a = n in user code
SetScalar(i, n) ==
    /\ heap[i].cls = "Foo"
    /\ heap[i].dict["a"] # IntV(n)
    /\ Commit(Ok(setattr(World, i, "a", IntV(n)), None), "set", "Foo", i, "a", 0, "none")

\* The instances that instance j refers to from its own __dict__
Strong(j) == {k \in Slots : \E f \in RefNames : heap[j].dict[f] = Obj(k)}

\* The instances that the state record of j, held by ORM.known_objects, refers to
Kept(j) == {k \in Slots : \E f \in RefNames : known[j].ov[f] = Obj(k)}

\* The instances reached from S through their own references
RECURSIVE Closure(_, _)
Closure(S, n) ==
    IF n = 0 THEN S ELSE Closure(S \cup UNION {Strong(j) : j \in S}, n - 1)

\* The instances that stay alive when the program holds R, A being those not
\* yet found dead: an instance lives while the program, a living instance or
\* the state record of a living instance refers to it; the weak reference's
\* callback (WeakKeyDict.__setitem__) removes the state record of a dead one.
RECURSIVE Alive(_, _, _)
Alive(R, A, n) ==
    IF n = 0 THEN A
    ELSE Alive(R, A \cap Closure(R \cup UNION {Kept(j) : j \in A}, MaxInst), n - 1)

\* The program drops its reference to an instance (del x; gc.collect())
Drop(i) ==
    /\ nops < MaxOps
    /\ roots' = roots \ {i}
    /\ heap' = [s \in Slots |-> IF s \in Alive(roots \ {i}, Live, MaxInst) THEN heap[s] ELSE NoInst]
    /\ known' = [s \in Slots |->
                    IF s \in Alive(roots \ {i}, Live, MaxInst) THEN known[s] ELSE NoState]
    /\ lastOp' = Op("drop", heap[i].cls, i, "", 0, "none", Ok(World, None))
    /\ nops' = nops + 1
    /\ UNCHANGED << reg, attr, installs, tables >>
    /\ UNCHANGED << poolVars, queryVars >>

NoOp ==
    [kind |-> "", cls |-> "", inst |-> 0, fld |-> "", id |-> 0, conn |-> "none",
     err |-> "", ret |-> None, log |-> << >>, made |-> {}]

\* The program before its first call: every class decorated with
\* orm_dataclass, no table, no instance.
Fresh ==
    [reg |-> [c \in Classes |-> "no_desc"],
     attr |-> [c \in Classes |-> [f \in RefNames |->
                 IF f \in OwnRefs(c) /\ Fields(c)[FieldIdx(c, f)].dflt THEN "default" ELSE "absent"]],
     installs |-> [c \in Classes |-> [f \in RefNames |-> 0]],
     heap |-> [s \in Slots |-> NoInst],
     known |-> [s \in Slots |-> NoState],
     tables |-> [c \in Classes |-> NoTable],
     log |-> << >>]

\* The tests' with_tables_created fixture: create(Foo); create(Bar)
TablesCreated == create(create(Fresh, "Foo", "none", FALSE).w, "Bar", "none", FALSE).w

\* No call of the pool made yet
NoPoolOp == [kind |-> "", conn |-> 0, body |-> "", ending |-> "", calls |-> << >>]

\* ConnectionPool.__init__(factory, size): the factory is called size times.
PoolBuilt(size) ==
    /\ pool = [k \in 1..size |-> k]
    /\ holders = [c \in 1..MaxConns |-> 0]
    /\ inuse = [c \in 1..MaxConns |-> 0]
    /\ made = size
    /\ plast = NoPoolOp

\* No Select built yet
NoSelects ==
    /\ sel = << >>
    /\ called = {}
    /\ qlast = [kind |-> "", b |-> 0, err |-> "", attribute |-> "",
                other |-> [kind |-> "none", cls |-> ""],
                other_attribute |-> "", check |-> 0, rows |-> << >>]

\* The ORM object holding w
Holding(w) ==
    /\ reg = w.reg
    /\ attr = w.attr
    /\ installs = w.installs
    /\ heap = w.heap
    /\ known = w.known
    /\ tables = w.tables
    /\ lastOp = NoOp
    /\ nops = 0
    /\ roots = {s \in Slots : w.heap[s].cls # ""}

Start(w) ==
    /\ PoolBuilt(PoolSize)
    /\ NoSelects
    /\ Holding(w)

\* Select(cls)() with no join and no filter: Select.__init__, Select.__call__
SelectAll(cls) ==
    /\ Cardinality(RowSet(World, cls)) <= Cardinality(FreeSlots)
    /\ Commit(get_all(World, cls, "none"), "select", cls, 0, "", 0, "none")

\* Writing rows: insert, update and delete on created tables.
Init == Start(TablesCreated)

Next ==
    \/ \E c \in Classes : \E vals \in Inputs(c) : New(c, vals)
    \/ \E i \in roots, conn \in Conns : Insert(i, conn)
    \/ \E i \in roots : Update(i)
    \/ \E i \in roots : Delete(i)
    \/ \E i \in roots, n \in Ints : SetScalar(i, n)

Spec == Init /\ [][Next]_vars

\* ------------------------------------------------------------ properties
\* The value of field f of the live instance i, as user code reads it
Held(i, f) == getattr(World, i, f).ret

\* The instances reached from the instances in S through reference fields
RECURSIVE Reach(_, _)
Reach(S, n) ==
    IF n = 0 THEN S
    ELSE Reach(S \cup {j \in Live : \E i \in S : \E f \in OwnRefs(heap[i].cls) :
                                       Held(i, f) = Obj(j)}, n - 1)

\* The instances a call's INSERT statements were for
InsertedBy(log) == {log[k].arg : k \in {m \in 1..Len(log) : log[m].op = "INSERT"}}
InsertsOf(log, d) ==
    Cardinality({k \in 1..Len(log) : log[k].op = "INSERT" /\ log[k].arg = d})
InsertsInto(log, cls) ==
    Cardinality({k \in 1..Len(log) : log[k].op = "INSERT" /\ log[k].table = cls})

\* get_by_id(cls, id) equals instance i field by field, reference fields
\* compared after they are resolved (at most fuel records deep)
RECURSIVE RowEquals(_, _, _, _)
RowEquals(cls, id, i, fuel) ==
    /\ fuel > 0
    /\ heap[i].cls = cls
    /\ tables[cls].exists
    /\ HasRow(World, cls, id)
    /\ \A k \in 1..NFields(cls) :
          LET f == Fields(cls)[k]
              c == structure(tables[cls].rows[id][f.name], f)
              h == Held(i, f.name)
          IN  IF c.t = "key"
              THEN h.t = "obj" /\ RowEquals(f.target, c.v, h.v, fuel - 1)
              ELSE c = h

InsertReturned == lastOp.kind = "insert" /\ lastOp.err = ""

\* C1 as stated: after id = insert(x), get_by_id(T, id) returns an instance
\* equal field by field to x, reference fields compared after resolution.
C1_RoundTrip ==
    InsertReturned => RowEquals(lastOp.cls, lastOp.ret.v, lastOp.inst, MaxInst)

\* Every timestamp held by x or by a record x reaches is timezone-aware
AllAware(i) ==
    \A j \in Reach({i}, MaxInst) : \A f \in OwnNames(heap[j].cls) :
        Held(j, f).t = "dt" => Held(j, f).z = "aware"

\* Every record x reaches that the call did not insert has a row id whose row
\* still equals it
PriorRowsCurrent(i, log) ==
    \A j \in Reach({i}, MaxInst) \ InsertedBy(log) :
        /\ known[j].rowid # None
        /\ RowEquals(heap[j].cls, known[j].rowid.v, j, MaxInst)

\* C1 amended: after id = insert(x), get_by_id(T, id) returns an instance equal
\* field by field to x provided every timestamp reached from x is
\* timezone-aware and every record reached from x that already had a row id
\* is stored as it currently is.
C1_RoundTripAmended ==
    (InsertReturned /\ AllAware(lastOp.inst) /\ PriorRowsCurrent(lastOp.inst, lastOp.log))
        => RowEquals(lastOp.cls, lastOp.ret.v, lastOp.inst, MaxInst)

C1_Witness ==
    /\ InsertReturned
    /\ lastOp.cls = "Bar"
    /\ Held(lastOp.inst, "some_foo").t = "obj"
    /\ Held(lastOp.inst, "other_foo").t = "obj"
    /\ Held(lastOp.inst, "other_foo") # Held(lastOp.inst, "some_foo")
    /\ InsertsInto(lastOp.log, "Foo") = 1
    /\ AllAware(lastOp.inst)
    /\ PriorRowsCurrent(lastOp.inst, lastOp.log)
    /\ RowEquals("Bar", lastOp.ret.v, lastOp.inst, MaxInst)

\* C2: a successful insert(container) sends exactly one INSERT for each
\* dependent held in a reference field that had no row id (also when two
\* fields hold the same dependent) and none for a dependent that had one,
\* whose row id it keeps; every INSERT adds one row; the container's column
\* stores the dependent's row id.
C2_Cascade ==
    [][(nops' = nops + 1 /\ lastOp'.kind = "insert" /\ lastOp'.err = "") =>
        /\ \A c \in Classes :
              Cardinality({k \in RowIds : tables'[c].rows[k] # NoRow})
                  = Cardinality(RowSet(World, c)) + InsertsInto(lastOp'.log, c)
        /\ \A f \in OwnRefs(lastOp'.cls) :
              LET d == Held(lastOp'.inst, f) IN
              IF d.t = "obj"
              THEN /\ InsertsOf(lastOp'.log, d.v) = IF known[d.v].rowid = None THEN 1 ELSE 0
                   /\ known[d.v].rowid # None => known'[d.v].rowid = known[d.v].rowid
                   /\ known'[d.v].rowid.t = "key"
                   /\ tables'[lastOp'.cls].rows[lastOp'.ret.v][f] = IntV(known'[d.v].rowid.v)
              ELSE tables'[lastOp'.cls].rows[lastOp'.ret.v][f] = None
      ]_vars

C2_Witness ==
    /\ InsertReturned
    /\ lastOp.cls = "Bar"
    /\ Held(lastOp.inst, "some_foo").t = "obj"
    /\ Held(lastOp.inst, "other_foo") = Held(lastOp.inst, "some_foo")
    /\ InsertsOf(lastOp.log, Held(lastOp.inst, "some_foo").v) = 1
    /\ tables["Bar"].rows[lastOp.ret.v]["some_foo"] = tables["Bar"].rows[lastOp.ret.v]["other_foo"]

\* C3 as stated: insert(container, connection=c) runs every statement,
\* cascading INSERTs included, on c; it takes no connection from the pool and
\* commits nothing between a dependent's INSERT and the container's INSERT.
C3_SameTransaction ==
    (lastOp.kind = "insert" /\ lastOp.conn = "caller") =>
        /\ \A k \in 1..Len(lastOp.log) :
              lastOp.log[k].conn = "caller" /\ lastOp.log[k].op # "use"
        /\ \A k \in 1..Len(lastOp.log) : \A m \in k..Len(lastOp.log) :
              (lastOp.log[k].op = "commit" /\ lastOp.log[m].op = "INSERT")
                  => \A j \in 1..k : lastOp.log[j].op # "INSERT"

\* C10: update(instance) and delete(instance) on an instance that has no row
\* id fail with ValueError, send no statement and leave every table unchanged.
C10_NoRowId ==
    [][(/\ nops' = nops + 1
        /\ lastOp'.kind \in {"update", "delete"}
        /\ known[lastOp'.inst].rowid = None)
        => (lastOp'.err = "ValueError" /\ lastOp'.log = << >> /\ tables' = tables)
      ]_vars

C10_Witness ==
    /\ lastOp.kind \in {"update", "delete"}
    /\ lastOp.err = "ValueError"
    /\ known[lastOp.inst].rowid = None
    /\ \E c \in Classes : RowSet(World, c) # {}

\* A populated store, as the tests' fixtures build it: two Foo rows, the second
\* the child of the first, and one Bar row whose references are x and y; the
\* instances it was built from are gone.
Populated(x, y) ==
    With(insert(construct(construct(construct(TablesCreated,
                                              1, "Foo", << IntV(1), None >>),
                                    2, "Foo", << IntV(2), Obj(1) >>),
                          3, "Bar", << DtV(0, "aware"), x, y >>),
                3, "none", {}).w, LAMBDA w4 :
    [(IF w4.known[2].rowid = None THEN insert(w4, 2, "none", {}).w ELSE w4)
        EXCEPT !.heap = [s \in Slots |-> NoInst],
               !.known = [s \in Slots |-> NoState],
               !.log = << >>])

\* Reading rows back into instances.
InitRead == \E x, y \in {None, Obj(1), Obj(2)} : Start(Populated(x, y))

NextRead ==
    \/ \E c \in Classes, id \in RowIds : GetById(c, id)
    \/ \E c \in Classes : GetAll(c)
    \/ \E c \in Classes : SelectAll(c)
    \/ \E i \in roots, f \in RefNames : ReadRef(i, f)
    \/ \E i \in roots : Drop(i)

SpecRead == InitRead /\ [][NextRead]_vars

\* The SELECT statements a call sent
Selects(log) == {k \in 1..Len(log) : log[k].op = "SELECT"}

\* C7: every instance built from a row keeps, for each non-null reference
\* column, the row id as a Key in its state record and nothing in its
\* __dict__; get_by_id, get_all and query execution send one SELECT, on the
\* table asked for, and a fetch of a referenced row is sent only by reading
\* the field, one SELECT for the key held.
C7_Lazy ==
    /\ \A s \in Live : known[s].rowid # None =>
          \A f \in OwnRefs(heap[s].cls) :
              LET c == tables[heap[s].cls].rows[known[s].rowid.v][f] IN
              c.t = "int" => (known[s].ov[f] = Key(c.v) /\ heap[s].dict[f] = Absent)
    /\ (lastOp.kind \in {"get_by_id", "get_all", "select"} /\ lastOp.err = "") =>
          /\ Cardinality(Selects(lastOp.log)) = 1
          /\ \A k \in Selects(lastOp.log) : lastOp.log[k].table = lastOp.cls
          /\ \A s \in lastOp.made : heap[s].cls = lastOp.cls
    /\ (lastOp.kind = "read" /\ lastOp.err = "") =>
          IF known[lastOp.inst].ov[lastOp.fld].t = "key"
          THEN /\ Cardinality(Selects(lastOp.log)) = 1
               /\ \A k \in Selects(lastOp.log) :
                     lastOp.log[k].arg = known[lastOp.inst].ov[lastOp.fld].v
               /\ lastOp.ret.t = "obj"
               /\ known[lastOp.ret.v].rowid = known[lastOp.inst].ov[lastOp.fld]
          ELSE lastOp.log = << >>

C7_Witness ==
    /\ lastOp.kind = "get_all"
    /\ lastOp.err = ""
    /\ lastOp.cls = "Bar"
    /\ \E s \in lastOp.made :
          /\ known[s].ov["some_foo"].t = "key"
          /\ known[s].ov["other_foo"].t = "key"
          /\ heap[s].dict["some_foo"] = Absent
    /\ Cardinality(Selects(lastOp.log)) = 1

\* Changing reference fields of instances that have rows: a Foo in slot 1,
\* inserted or not, and an inserted Bar in slot 2 whose references are None.
Seeded(foo_inserted) ==
    With(insert(construct(construct(TablesCreated,
                                    1, "Foo", << IntV(1), None >>),
                          2, "Bar", << DtV(0, "aware"), None, None >>),
                2, "none", {}).w, LAMBDA w2 :
    [(IF foo_inserted THEN insert(w2, 1, "none", {}).w ELSE w2) EXCEPT !.log = << >>])

InitWrite == \E foo_inserted \in BOOLEAN : Start(Seeded(foo_inserted))

NextWrite ==
    \/ nops < MaxWriteOps /\ \E c \in Classes : \E vals \in Inputs(c) : New(c, vals)
    \/ nops < MaxWriteOps /\ \E i \in roots : Insert(i, "none")
    \/ nops < MaxWriteOps /\ \E i \in roots : Update(i)
    \/ nops < MaxWriteOps /\ \E i \in roots, id \in RowIds : UpdateById(i, id)
    \/ nops < MaxWriteOps /\ \E i \in roots, f \in RefNames, v \in RefInputs : WriteRef(i, f, v)
    \/ nops < MaxWriteOps /\ \E i \in roots, f \in RefNames : ClearRef(i, f)
    \/ nops < MaxWriteOps /\ \E i \in roots : Drop(i)

SpecWrite == InitWrite /\ [][NextWrite]_vars

\* The positions of the reference fields of instance i that hold a non-null
\* value that is not an instance of the field's declared class
WrongTyped(i) ==
    {k \in 1..NFields(heap[i].cls) :
        /\ Fields(heap[i].cls)[k].kind = "ref"
        /\ Held(i, Fields(heap[i].cls)[k].name).t = "obj"
        /\ heap[Held(i, Fields(heap[i].cls)[k].name).v].cls # Fields(heap[i].cls)[k].target}

\* Every field of i before position k can be read, and a reference field
\* there holds None or an instance that has a row id
EarlierSettled(i, k) ==
    \A j \in 1..(k - 1) :
        /\ getattr(World, i, Fields(heap[i].cls)[j].name).err = ""
        /\ Held(i, Fields(heap[i].cls)[j].name).t = "obj" =>
              known[Held(i, Fields(heap[i].cls)[j].name).v].rowid # None

RowIdsKept == \A s \in Slots : known'[s].rowid = known[s].rowid

Use ==
    /\ nops < MaxPoolOps
    /\ pool # << >> \/ made < MaxConns
    /\ LET c == IF pool # << >> THEN pool[Len(pool)] ELSE made + 1 IN
       /\ pool' = IF pool # << >> THEN SubSeq(pool, 1, Len(pool) - 1) ELSE pool
       /\ made' = IF pool # << >> THEN made ELSE made + 1
       /\ holders' = [holders EXCEPT ![c] = @ + 1]
       /\ inuse' = [inuse EXCEPT ![c] = @ + 1]
       /\ plast' = [kind |-> "use", conn |-> c, body |-> "", ending |-> "", calls |-> << >>]
    /\ nops' = nops + 1
    /\ UNCHANGED << reg, attr, installs, heap, known, tables, lastOp, roots >>
    /\ UNCHANGED queryVars

\* A release that keeps every connection
release_all(idle, c) == Append(idle, c)

\* A release that keeps one idle connection fewer
release_short(idle, c) == IF Len(idle) < PoolSize - 1 THEN Append(idle, c) ELSE idle

\* ConnectionPool.release
release(idle, c) == IF Len(idle) < PoolSize THEN Append(idle, c) ELSE idle

\* with manager: body -- ConnectionContextMgr.__enter__, the body, which
\* returns or raises, and ConnectionContextMgr.__exit__: commit or rollback,
\* which returns or raises, then release.
Scope(c, body, ending) ==
    /\ nops < MaxPoolOps
    /\ holders[c] > 0
    /\ pool' = IF ending = "returns" THEN release(pool, c) ELSE pool
    /\ inuse' = IF ending = "returns" /\ inuse[c] > 0 THEN [inuse EXCEPT ![c] = @ - 1] ELSE inuse
    /\ plast' = [kind |-> "scope", conn |-> c, body |-> body, ending |-> ending,
                 calls |-> << IF body = "returns" THEN "commit" ELSE "rollback" >>
                           \o (IF ending = "returns" THEN << "release" >> ELSE << >>)]
    /\ nops' = nops + 1
    /\ UNCHANGED << holders, made >>
    /\ UNCHANGED << reg, attr, installs, heap, known, tables, lastOp, roots >>
    /\ UNCHANGED queryVars

\* The caller lets go of a context manager
Forget(c) ==
    /\ nops < MaxPoolOps
    /\ holders[c] > 0
    /\ holders' = [holders EXCEPT ![c] = @ - 1]
    /\ plast' = [kind |-> "forget", conn |-> c, body |-> "", ending |-> "", calls |-> << >>]
    /\ nops' = nops + 1
    /\ UNCHANGED << pool, made, inuse >>
    /\ UNCHANGED << reg, attr, installs, heap, known, tables, lastOp, roots >>
    /\ UNCHANGED queryVars

Outcomes == {"returns", "raises"}

InitPool == Start(Fresh)

NextPool ==
    \/ Use
    \/ \E c \in 1..MaxConns, body \in Outcomes, ending \in Outcomes : Scope(c, body, ending)
    \/ \E c \in 1..MaxConns : Forget(c)

SpecPool == InitPool /\ [][NextPool]_vars

\* C4 as stated: a scope on a pooled connection releases it on every exit
\* path, also when commit or rollback raises; it commits and does not roll
\* back when the body returns, rolls back and does not commit when it raises.
C4_AlwaysReleased ==
    plast.kind = "scope" =>
        /\ \E k \in 1..Len(plast.calls) : plast.calls[k] = "release"
        /\ plast.body = "returns" =>
              /\ \E k \in 1..Len(plast.calls) : plast.calls[k] = "commit"
              /\ \A k \in 1..Len(plast.calls) : plast.calls[k] # "rollback"
        /\ plast.body = "raises" =>
              /\ \E k \in 1..Len(plast.calls) : plast.calls[k] = "rollback"
              /\ \A k \in 1..Len(plast.calls) : plast.calls[k] # "commit"

\* -------------------------------------------------------- the registry
\* ORM.orm_dataclass
orm_dataclass(w, cls) == Ok([w EXCEPT !.reg[cls] = "no_desc"], None)

Register(cls) == Commit(orm_dataclass(World, cls), "register", cls, 0, "", 0, "none")

\* ORM._get_class_fields, called first by every operation given a class
Resolve(cls) == Commit(get_class_fields(World, cls), "resolve", cls, 0, "", 0, "none")

\* The program before any class is decorated
Unregistered == [Fresh EXCEPT !.reg = [c \in Classes |-> "absent"]]

InitReg == Start(Unregistered)

NextReg ==
    \/ \E c \in Classes : Register(c)
    \/ \E c \in Classes : Resolve(c)
    \/ \E c \in Classes, drop \in BOOLEAN : Create(c, drop)

SpecReg == InitReg /\ [][NextReg]_vars

\* C5 as stated: over any sequence of register and resolve calls the accessors
\* of a type are installed at most once; registering a type whose accessors
\* are installed keeps its entry (accessors installed), and resolving it
\* again changes nothing and succeeds.
C5_Idempotent ==
    [][nops' = nops + 1 =>
        /\ \A c \in Classes : \A f \in RefNames : installs'[c][f] <= 1
        /\ (lastOp'.kind = "register" /\ reg[lastOp'.cls] = "has_desc")
              => reg'[lastOp'.cls] = "has_desc"
        /\ (lastOp'.kind = "resolve" /\ \E f \in RefNames : installs[lastOp'.cls][f] > 0)
              => (/\ lastOp'.err = ""
                  /\ reg'[lastOp'.cls] = "has_desc"
                  /\ installs' = installs
                  /\ attr' = attr)
      ]_vars

\* C8 as stated: create(T) gives a field whose non-null type is a registered
\* record type the integer row-id column type, never BLOB; an integer field
\* INTEGER, a timestamp field TEXT; only a type neither built-in nor
\* registered gets BLOB.
C8_ColumnTypes ==
    (lastOp.kind = "create" /\ lastOp.err = "") =>
        \A k \in 1..NFields(lastOp.cls) :
            LET f == Fields(lastOp.cls)[k] IN
            tables[lastOp.cls].cols[f.name] =
                IF f.kind = "int" THEN "INTEGER"
                ELSE IF f.kind = "datetime" THEN "TEXT"
                ELSE IF has_orm(World, f.target) THEN "INTEGER"
                ELSE "BLOB"

\* ------------------------------------------------------------ queries
\* Record types of the relation query tests, all registered: Student(name: str),
\* Course(title: str) without its instructor, and
\* Registration(student: Student, course: Course).
QClasses == {"Student", "Course", "Registration"}
QFields(cls) ==
    IF cls = "Student" THEN << [name |-> "name", type |-> "str"] >>
    ELSE IF cls = "Course" THEN << [name |-> "title", type |-> "str"] >>
    ELSE IF cls = "Registration"
    THEN << [name |-> "student", type |-> "Student"], [name |-> "course", type |-> "Course"] >>
    ELSE << >>

SQLITE_ROWID == "_rowid_"

\* find_field
HasField(name, cls) == \E k \in 1..Len(QFields(cls)) : QFields(cls)[k].name = name
find_field(name, cls) == QFields(cls)[CHOOSE k \in 1..Len(QFields(cls)) : QFields(cls)[k].name = name]

\* Select.__init__
select(cls) ==
    [cls |-> cls, join_attributes |-> << >>, join_tables |-> << >>, join_aliases |-> << >>,
     join_other_attributes |-> << >>, where_clauses |-> << >>, parameters |-> << >>]

\* Select.where: a clause is the sequence of its placeholders, each the
\* parameter value it stands for
where(b, parameters) ==
    [b EXCEPT !.where_clauses = Append(@, parameters), !.parameters = @ \o parameters]

SeqMin(a, b) == IF a <= b THEN a ELSE b

\* Select.get_statement: the text, as the parts it is put together from; zip
\* stops at the shortest of the four join lists
get_statement(b) ==
    [table |-> b.cls,
     distinct |-> Len(b.join_attributes) > 0,
     joins |-> [k \in 1..SeqMin(SeqMin(Len(b.join_tables), Len(b.join_aliases)),
                               SeqMin(Len(b.join_attributes), Len(b.join_other_attributes))) |->
                  [table |-> b.join_tables[k], alias |-> b.join_aliases[k],
                   attribute |-> b.join_attributes[k],
                   other_attribute |-> b.join_other_attributes[k]]],
     where |-> b.where_clauses]

\* The placeholders of a statement, left to right: those of each JOIN's
\* derived table, then those of the WHERE clauses
RECURSIVE Flat(_)
Flat(seqs) == IF seqs = << >> THEN << >> ELSE Head(seqs) \o Flat(Tail(seqs))

RECURSIVE Placeholders(_)
Placeholders(stmt) ==
    Flat([k \in 1..Len(stmt.joins) |->
            IF stmt.joins[k].table.sub = << >> THEN << >>
            ELSE Placeholders(stmt.joins[k].table.sub[1])])
        \o Flat(stmt.where)

\* The other argument of join: nothing, a Select, or an instance of a class
NoOther == [kind |-> "none", cls |-> "", q |-> << >>]
OtherSelect(q) == [kind |-> "select", cls |-> q.cls, q |-> << q >>]
OtherInstance(cls) == [kind |-> "instance", cls |-> cls, q |-> << >>]

\* A variant of validate_join_arguments that accepts every combination
validate_join_arguments_lax(attribute, other, other_attribute) == 0

\* validate_join_arguments: the number of the check that raises ValueError, in
\* the order of the source, or 0 when the arguments pass
validate_join_arguments(attribute, other, other_attribute) ==
    IF attribute = "" /\ other.kind = "none" THEN 1
    ELSE IF attribute = "" /\ other_attribute = "" THEN 2
    ELSE IF other.kind = "none" /\ other_attribute # "" THEN 3
    ELSE 0

\* Select._get_left_join_type
left_join_type(b, attribute) ==
    IF attribute = "" THEN b.cls ELSE find_field(attribute, b.cls).type

\* Select._get_other_join_class
other_join_class(other, left_type) == IF other.kind = "none" THEN left_type ELSE other.cls

\* A variant of right_join_type that answers the left type
right_join_type_same(left_type, other_class, other_attribute) == left_type

\* Select._handle_right_join_type: the right type
right_join_type(left_type, other_class, other_attribute) ==
    IF other_attribute = "" THEN other_class
    ELSE find_field(other_attribute, other_class).type

\* A variant of get_join_table that names a table for every type
get_join_table_any(other_class) == other_class

\* Select._get_join_table: the table name, "" for ValueError
get_join_table(other_class) == IF other_class \in QClasses THEN other_class ELSE ""

\* A variant of add_to_join_table that joins a nested query without its filters
add_to_join_table_bare(b, join_table, other) ==
    IF other.kind = "select"
    THEN [b EXCEPT !.join_tables =
                       Append(@, [name |-> "", sub |-> << get_statement(select(other.cls)) >>])]
    ELSE [b EXCEPT !.join_tables = Append(@, [name |-> join_table, sub |-> << >>])]

\* Select._add_to_join_table
add_to_join_table(b, join_table, other) ==
    IF other.kind = "select"
    THEN [b EXCEPT !.join_tables = Append(@, [name |-> "", sub |-> << get_statement(other.q[1]) >>]),
                   !.parameters = other.q[1].parameters \o @]
    ELSE [b EXCEPT !.join_tables = Append(@, [name |-> join_table, sub |-> << >>])]

\* Select._handle_right_join_type and the rest of Select.join, the left
\* attribute appended
join_right(b, attribute, other, other_attribute, left_type, other_class) ==
    With([b EXCEPT !.join_other_attributes =
                       Append(@, IF other_attribute = "" THEN SQLITE_ROWID
                                 ELSE other_attribute)], LAMBDA b2 :
    IF other_attribute # "" /\ ~HasField(other_attribute, other_class)
    THEN [b |-> b2, err |-> "ValueError"]
    ELSE IF left_type # right_join_type(left_type, other_class, other_attribute)
    THEN [b |-> b2, err |-> "TypeError"]
    ELSE IF get_join_table(other_class) = "" THEN [b |-> b2, err |-> "ValueError"]
    ELSE [b |-> add_to_join_table(
                    [b2 EXCEPT !.join_aliases =
                                   Append(@, IF attribute # "" THEN attribute
                                             ELSE get_join_table(other_class))],
                    get_join_table(other_class), other),
          err |-> ""])

\* Select.join; an absent attribute is ""
join(b, attribute, other, other_attribute) ==
    IF validate_join_arguments(attribute, other, other_attribute) # 0
    THEN [b |-> b, err |-> "ValueError"]
    ELSE With([b EXCEPT !.join_attributes =
                            Append(@, IF attribute = "" THEN SQLITE_ROWID ELSE attribute)],
              LAMBDA b1 :
         IF attribute # "" /\ ~HasField(attribute, b.cls)
         THEN [b |-> b1, err |-> "ValueError"]
         ELSE join_right(b1, attribute, other, other_attribute,
                         left_join_type(b, attribute),
                         other_join_class(other, left_join_type(b, attribute))))

\* The last call on a Select: its arguments, the exception it raised, and for
\* join the argument check that rejected it
QOp(kind, b, err, attribute, other, other_attribute, check) ==
    [kind |-> kind, b |-> b, err |-> err, attribute |-> attribute,
     other |-> [kind |-> other.kind, cls |-> other.cls],
     other_attribute |-> other_attribute, check |-> check, rows |-> << >>]

\* query.where(clause, parameters) in user code
Where(b, parameters) ==
    /\ nops < MaxQueryOps
    /\ sel' = [sel EXCEPT ![b] = where(sel[b], parameters)]
    /\ qlast' = QOp("where", b, "", "", NoOther, "", 0)
    /\ nops' = nops + 1
    /\ UNCHANGED << reg, attr, installs, heap, known, tables, lastOp, roots, poolVars, called >>

\* query.join(attribute, other, other_attribute) in user code
Join(b, attribute, other, other_attribute) ==
    /\ nops < MaxQueryOps
    /\ sel' = [sel EXCEPT ![b] = join(sel[b], attribute, other, other_attribute).b]
    /\ qlast' = QOp("join", b, join(sel[b], attribute, other, other_attribute).err,
                    attribute, other, other_attribute,
                    validate_join_arguments(attribute, other, other_attribute))
    /\ nops' = nops + 1
    /\ UNCHANGED << reg, attr, installs, heap, known, tables, lastOp, roots, poolVars, called >>

\* ------------------------------------------------------ query execution
\* The rows of the relation query tests' database, abridged: a name or title
\* is a number, a reference column holds a row id.
QRows(cls) ==
    IF cls = "Student" THEN << [name |-> 1], [name |-> 2] >>
    ELSE IF cls = "Course" THEN << [title |-> 2], [title |-> 3] >>
    ELSE IF cls = "Registration"
    THEN << [student |-> 1, course |-> 1], [student |-> 1, course |-> 2],
            [student |-> 2, course |-> 1] >>
    ELSE << >>

QRowIds(cls) == 1..Len(QRows(cls))
Columns(cls) == {SQLITE_ROWID} \cup {QFields(cls)[k].name : k \in 1..Len(QFields(cls))}
Col(cls, r, name) == IF name = SQLITE_ROWID THEN r ELSE QRows(cls)[r][name]

\* A where clause of the tests compares the table's first column with its
\* placeholder: "name = ?", "title = ?"
Satisfies(cls, r, clause) ==
    \A i \in 1..Len(clause) : Col(cls, r, QFields(cls)[1].name) = clause[i]

\* The placeholders of the derived table of JOIN k, and those before it
SubPlaceholders(stmt, k) ==
    IF stmt.joins[k].table.sub = << >> THEN << >>
    ELSE Placeholders(stmt.joins[k].table.sub[1])
Before(stmt, k) == Len(Flat([j \in 1..(k - 1) |-> SubPlaceholders(stmt, j)]))
BeforeWhere(stmt, c) ==
    Before(stmt, Len(stmt.joins) + 1) + Len(Flat(SubSeq(stmt.where, 1, c - 1)))

\* cursor.execute(statement, parameters): sqlite binds the parameters to the
\* placeholders of the text by position
RECURSIVE Bind(_, _)
Bind(stmt, parameters) ==
    [stmt EXCEPT
        !.joins = [k \in 1..Len(stmt.joins) |->
            IF stmt.joins[k].table.sub = << >> THEN stmt.joins[k]
            ELSE [stmt.joins[k] EXCEPT !.table.sub =
                    << Bind(stmt.joins[k].table.sub[1],
                            SubSeq(parameters, Before(stmt, k) + 1,
                                   Before(stmt, k) + Len(SubPlaceholders(stmt, k)))) >>]],
        !.where = [c \in 1..Len(stmt.where) |->
            SubSeq(parameters, BeforeWhere(stmt, c) + 1,
                   BeforeWhere(stmt, c) + Len(stmt.where[c]))]]

\* The table a JOIN reads: a table of the database or a derived table
JoinedClass(j) == IF j.table.sub = << >> THEN j.table.name ELSE j.table.sub[1].table

\* sqlite prepares the statement: every column named exists and every alias
\* names one table
RECURSIVE Prepares(_)
Prepares(stmt) ==
    /\ \A k \in 1..Len(stmt.joins) :
          /\ stmt.joins[k].attribute \in Columns(stmt.table)
          /\ stmt.joins[k].other_attribute \in Columns(JoinedClass(stmt.joins[k]))
          /\ stmt.joins[k].alias # stmt.table
          /\ stmt.joins[k].table.sub # << >> => Prepares(stmt.joins[k].table.sub[1])
    /\ \A k, m \in 1..Len(stmt.joins) : k # m => stmt.joins[k].alias # stmt.joins[m].alias

\* The result of a statement whose placeholders hold their values: for each
\* row id of its table, how many times the row is returned
RECURSIVE Eval(_)
RECURSIVE JoinMatches(_, _, _)
RECURSIVE Combinations(_, _, _)

\* The rows of JOIN k that satisfy its ON condition with row r
JoinMatches(stmt, k, r) ==
    Cardinality({n \in QRowIds(JoinedClass(stmt.joins[k])) :
        /\ Col(JoinedClass(stmt.joins[k]), n, stmt.joins[k].other_attribute)
              = Col(stmt.table, r, stmt.joins[k].attribute)
        /\ stmt.joins[k].table.sub # << >> => Eval(stmt.joins[k].table.sub[1])[n] > 0})

Combinations(stmt, r, k) ==
    IF k = 0 THEN 1 ELSE JoinMatches(stmt, k, r) * Combinations(stmt, r, k - 1)

Eval(stmt) ==
    [r \in QRowIds(stmt.table) |->
        IF \E c \in 1..Len(stmt.where) : ~Satisfies(stmt.table, r, stmt.where[c]) THEN 0
        ELSE IF stmt.distinct /\ Combinations(stmt, r, Len(stmt.joins)) > 0 THEN 1
        ELSE Combinations(stmt, r, Len(stmt.joins))]

\* Select.__call__ up to the iterator it returns: the statement is executed
\* with the builder's parameters on a pooled connection and its rows fetched
call(b) ==
    IF ~Prepares(get_statement(b)) THEN [err |-> "OperationalError", rows |-> << >>]
    ELSE IF Len(b.parameters) # Len(Placeholders(get_statement(b)))
    THEN [err |-> "ProgrammingError", rows |-> << >>]
    ELSE [err |-> "", rows |-> Eval(Bind(get_statement(b), b.parameters))]

\* query() in user code
Execute(b) ==
    /\ nops < MaxQueryOps
    /\ qlast' = [QOp("execute", b, call(sel[b]).err, "", NoOther, "", 0)
                    EXCEPT !.rows = call(sel[b]).rows]
    /\ lastOp' = [NoOp EXCEPT !.kind = "query", !.cls = sel[b].cls, !.err = call(sel[b]).err,
                     !.log = CtxExit(Emit(CtxEnter(World, "none"),
                                          Ev("SELECT", sel[b].cls, "pool", 0)),
                                     "none", call(sel[b]).err # "").log]
    /\ called' = called \cup {b}
    /\ nops' = nops + 1
    /\ UNCHANGED << reg, attr, installs, heap, known, tables, roots, poolVars, sel >>

QAttributes == {"", "student", "course", "name"}
QParameters == {<< >>, << 3 >>}
\* What builder b is joined with: nothing, a Course instance or another builder
Others(b) ==
    {NoOther, OtherInstance("Course")} \cup {OtherSelect(sel[q]) : q \in (1..Len(sel)) \ {b}}

\* select(Registration), select(Student).where("name = ?", (1,)) and
\* select(Course).where("title = ?", (2,))
InitQuery ==
    /\ PoolBuilt(PoolSize)
    /\ Holding(Fresh)
    /\ sel = << select("Registration"), where(select("Student"), << 1 >>),
                where(select("Course"), << 2 >>) >>
    /\ called = {}
    /\ qlast = QOp("", 0, "", "", NoOther, "", 0)

NextQuery ==
    \/ \E b \in 1..Len(sel), parameters \in QParameters : Where(b, parameters)
    \/ \E b \in 1..Len(sel) : \E a \in QAttributes, o \in Others(b), oa \in QAttributes :
          Join(b, a, o, oa)
    \/ \E b \in 1..Len(sel) : Execute(b)

SpecQuery == InitQuery /\ [][NextQuery]_vars

\* C6 as stated: the parameter list of every builder is, position by
\* position, the list of the placeholders of its compiled statement: the
\* parameters of each nested query in the order of the JOIN list, then the
\* outer where parameters in call order.
C6_ParameterOrder ==
    \A b \in 1..Len(sel) : sel[b].parameters = Placeholders(get_statement(sel[b]))

\* ------------------------------------------------- rows read and written
\* Reading, changing and deleting the rows of a populated store.
InitCrud == InitRead

NextCrud ==
    \/ nops < MaxCrudOps /\ \E c \in Classes, id \in RowIds : GetById(c, id)
    \/ nops < MaxCrudOps /\ \E c \in Classes : GetAll(c)
    \/ nops < MaxCrudOps /\ \E c \in Classes : SelectAll(c)
    \/ nops < MaxCrudOps /\ \E c \in Classes, id \in RowIds : DeleteById(c, id)
    \/ nops < MaxCrudOps /\ \E i \in roots : Delete(i)
    \/ nops < MaxCrudOps /\ \E i \in roots : Update(i)
    \/ nops < MaxCrudOps /\ \E i \in roots, n \in Ints : SetScalar(i, n)

SpecCrud == InitCrud /\ [][NextCrud]_vars

\* The row a delete or delete_by_id call about to be recorded in lastOp names
DeletedId == IF lastOp'.kind = "delete" THEN known[lastOp'.inst].rowid.v ELSE lastOp'.id

\* C11: after delete_by_id(T, id), or delete(instance) of an instance
\* persisted at id, get_by_id(T, id) fails with the no-rows condition, the rows
\* get_all(T) reads no longer include id, and every other row of every table
\* is unchanged.
C11_Deleted ==
    [][(nops' = nops + 1 /\ lastOp'.kind \in {"delete", "delete_by_id"} /\ lastOp'.err = "")
        => (/\ get_by_id(World', 1, lastOp'.cls, DeletedId, "none").err = "StopIteration"
            /\ DeletedId \notin RowSet(World', lastOp'.cls)
            /\ \A c \in Classes : \A k \in RowIds :
                  (c # lastOp'.cls \/ k # DeletedId) => tables'[c].rows[k] = tables[c].rows[k])
      ]_vars

C11_Witness ==
    /\ nops = 2
    /\ lastOp.kind = "delete"
    /\ lastOp.err = ""
    /\ lastOp.cls = "Foo"
    /\ known[lastOp.inst].rowid = Key(1)
    /\ RowSet(World, "Foo") = {2}

\* The row an update or update_by_id call recorded in lastOp names
UpdatedId == IF lastOp.kind = "update" THEN known[lastOp.inst].rowid.v ELSE lastOp.id

\* get_by_id of that row equals the instance the call was given
UpdateReadsBack == RowEquals(lastOp.cls, UpdatedId, lastOp.inst, MaxInst)

\* The records instance i reaches through its reference fields
Dependents(i) ==
    Reach({j \in Live : \E f \in OwnRefs(heap[i].cls) : Held(i, f) = Obj(j)}, MaxInst)

\* Every record the instance of lastOp reaches is stored as it currently is
DependentsCurrent ==
    \A j \in Dependents(lastOp.inst) :
        /\ known[j].rowid # None
        /\ RowEquals(heap[j].cls, known[j].rowid.v, j, MaxInst)

UpdateReturned ==
    /\ nops' = nops + 1
    /\ lastOp'.kind \in {"update", "update_by_id"}
    /\ lastOp'.err = ""
    /\ HasRow(World, lastOp'.cls, UpdatedId')

RECURSIVE DeleteEach(_, _)
DeleteEach(w, S) ==
    IF S = {} THEN w
    ELSE DeleteEach(delete(w, CHOOSE s \in S : TRUE, "none").w, S \ {CHOOSE s \in S : TRUE})

ReadReturned == lastOp.kind \in {"get_by_id", "get_all", "select"} /\ lastOp.err = ""

\* The row ids recorded for the instances the last call built
YieldedIds == {known[s].rowid.v : s \in lastOp.made}

\* C13: every instance yielded by get_by_id, get_all or a query execution is
\* a new instance built from one row, whose state records that row's id, a
\* different row for each instance; delete(instance) removes exactly that row
\* and update(instance) changes no other row; get_by_id yields the row asked
\* for, get_all and a query every row of T, and deleting every instance yielded
\* leaves T empty.
C13_YieldedKnowTheirRow ==
    ReadReturned =>
        /\ \A s \in lastOp.made :
              /\ heap[s].cls = lastOp.cls
              /\ known[s].rowid.t = "key"
              /\ HasRow(World, lastOp.cls, known[s].rowid.v)
              /\ \A k \in 1..NFields(lastOp.cls) :
                    Held(s, Fields(lastOp.cls)[k].name)
                        = Converted(World, lastOp.cls, known[s].rowid.v)[k]
              /\ delete(World, s, "none").w.tables
                    = [tables EXCEPT ![lastOp.cls].rows[known[s].rowid.v] = NoRow]
              /\ \A c \in Classes : \A r \in RowIds :
                    (c # lastOp.cls \/ r # known[s].rowid.v)
                        => update(World, s, "none").w.tables[c].rows[r] = tables[c].rows[r]
        /\ Cardinality(YieldedIds) = Cardinality(lastOp.made)
        /\ lastOp.kind = "get_by_id" => YieldedIds = {lastOp.id}
        /\ lastOp.kind # "get_by_id" =>
              /\ YieldedIds = RowSet(World, lastOp.cls)
              /\ RowSet(DeleteEach(World, lastOp.made), lastOp.cls) = {}

C13_Witness ==
    /\ ReadReturned
    /\ lastOp.kind = "get_all"
    /\ lastOp.cls = "Foo"
    /\ Cardinality(lastOp.made) = 2
    /\ RowSet(DeleteEach(World, lastOp.made), "Foo") = {}

\* The join recorded in qlast', on the builder as it was before the call
JoinStep == nops' = nops + 1 /\ qlast'.kind = "join"
Joined == sel[qlast'.b]

\* Both attributes of that join name fields, so that both types resolve
Resolves ==
    /\ qlast'.check = 0
    /\ qlast'.attribute # "" => HasField(qlast'.attribute, Joined.cls)
    /\ qlast'.other_attribute # "" => HasField(qlast'.other_attribute, qlast'.other.cls)

\* The declared type of the left attribute, or the root type
LeftType ==
    IF qlast'.attribute = "" THEN Joined.cls
    ELSE QFields(Joined.cls)[CHOOSE k \in 1..Len(QFields(Joined.cls)) :
                                 QFields(Joined.cls)[k].name = qlast'.attribute].type

\* The type of the other table
OtherType == IF qlast'.other.kind = "none" THEN LeftType ELSE qlast'.other.cls

\* The declared type of the right attribute, or the other table's type
RightType ==
    IF qlast'.other_attribute = "" THEN OtherType
    ELSE QFields(OtherType)[CHOOSE k \in 1..Len(QFields(OtherType)) :
                                QFields(OtherType)[k].name = qlast'.other_attribute].type

\* C14: a join is accepted only when the left type and the right type resolve
\* and are the identical type; when they resolve and differ the call raises
\* TypeError; join sends no statement.
C14_JoinTypes ==
    [][JoinStep =>
        /\ qlast'.err = "" => (Resolves /\ LeftType = RightType)
        /\ (Resolves /\ LeftType # RightType) => qlast'.err = "TypeError"
        /\ UNCHANGED << tables, lastOp >>
      ]_vars

C14_Witness ==
    /\ qlast.kind = "join"
    /\ qlast.err = "TypeError"
    /\ sel[qlast.b].cls = "Registration"
    /\ qlast.attribute = "student"
    /\ qlast.other = [kind |-> "select", cls |-> "Course"]

\* C15: select(T).join(name) succeeds when name is a field of T whose declared
\* type is a registered record type, and raises ValueError, sending no
\* statement, when name is not a field of T or is a field of another type.
C15_JoinByName ==
    [][(/\ JoinStep
        /\ qlast'.attribute # ""
        /\ qlast'.other.kind = "none"
        /\ qlast'.other_attribute = "")
        => /\ qlast'.err = IF HasField(qlast'.attribute, Joined.cls) /\ LeftType \in QClasses
                           THEN "" ELSE "ValueError"
           /\ UNCHANGED << tables, lastOp >>
      ]_vars

C15_Witness ==
    /\ qlast.kind = "join"
    /\ qlast.err = "ValueError"
    /\ qlast.attribute = "name"
    /\ qlast.other.kind = "none"
    /\ qlast.other_attribute = ""
    /\ sel[qlast.b].cls = "Student"
    /\ \E b \in 1..Len(sel) : sel[b].join_aliases = << "course" >>

\* C16: join rejects its arguments with ValueError, the builder unchanged, by
\* the first of these checks that applies: (1) attribute and other absent,
\* (2) attribute and other_attribute absent, (3) other_attribute present and
\* other absent; every other combination passes the checks.
C16_ArgumentChecks ==
    [][JoinStep =>
        /\ qlast'.check =
              IF qlast'.attribute = "" /\ qlast'.other.kind = "none" THEN 1
              ELSE IF qlast'.attribute = "" /\ qlast'.other_attribute = "" THEN 2
              ELSE IF qlast'.other.kind = "none" /\ qlast'.other_attribute # "" THEN 3
              ELSE 0
        /\ qlast'.check # 0 => (qlast'.err = "ValueError" /\ sel' = sel)
        /\ (/\ qlast'.check = 0
            /\ qlast'.attribute # "" => HasField(qlast'.attribute, Joined.cls))
              => Len(sel'[qlast'.b].join_attributes) = Len(Joined.join_attributes) + 1
      ]_vars

C16_Witness ==
    /\ qlast.kind = "join"
    /\ qlast.check = 2
    /\ qlast.err = "ValueError"
    /\ qlast.other.kind = "select"
    /\ \E b \in 1..Len(sel) : sel[b].join_aliases # << >>

\* The statement of the builder the last call executed
Executed == get_statement(sel[qlast.b])

\* Row r of the root table has, for JOIN k, a row of the joined table, or a
\* row the nested query selects when run by itself, that its ON condition pairs
\* it with
HasPartner(stmt, k, r) ==
    \E n \in QRowIds(JoinedClass(stmt.joins[k])) :
        /\ Col(JoinedClass(stmt.joins[k]), n, stmt.joins[k].other_attribute)
              = Col(stmt.table, r, stmt.joins[k].attribute)
        /\ stmt.joins[k].table.sub # << >> => Eval(stmt.joins[k].table.sub[1])[n] > 0

\* C17 as stated: executing a query with at least one join returns each root
\* row at most once, and returns exactly the root rows that satisfy the where
\* clauses and whose join attribute equals, for every join, the row id (or
\* right attribute) of some row of the joined table or of some row selected by
\* the nested query.
C17_JoinResult ==
    (qlast.kind = "execute" /\ qlast.err = "" /\ Len(Executed.joins) > 0) =>
        \A r \in QRowIds(Executed.table) :
            /\ qlast.rows[r] <= 1
            /\ qlast.rows[r] > 0 <=>
                  /\ \A c \in 1..Len(Executed.where) :
                        Satisfies(Executed.table, r, Executed.where[c])
                  /\ \A k \in 1..Len(Executed.joins) : HasPartner(Executed, k, r)

\* C18 as stated: when the program drops an instance, every tracked instance
\* that the program can no longer reach through reference fields is gone and
\* its entry is removed from the state store without a further call; the
\* instances still reachable, and their entries, are unaffected.
C18_WeakIdentity ==
    [][(nops' = nops + 1 /\ lastOp'.kind = "drop") =>
        \A s \in Live :
            IF s \in Reach(roots', MaxInst)
            THEN heap'[s] = heap[s] /\ known'[s] = known[s]
            ELSE heap'[s] = NoInst /\ known'[s] = NoState
      ]_vars

\* The number of connections in use: every call of use() that has not yet
\* been followed by a release() of its connection counts once.
RECURSIVE Total(_, _)
Total(f, n) == IF n = 0 THEN 0 ELSE f[n] + Total(f, n - 1)
InUse == Total(inuse, MaxConns)

\* C19 as stated: the pool is built by exactly PoolSize calls of the factory,
\* and while the factory has not been called since, a use() made when fewer
\* than PoolSize connections are in use (so that at most PoolSize are in use
\* after it) hands out one of the pre-built connections and does not call
\* the factory.
C19_PoolReuse ==
    [][/\ (nops = 0 => made = PoolSize /\ pool = [k \in 1..PoolSize |-> k])
       /\ (nops' = nops + 1 /\ plast'.kind = "use" /\ made = PoolSize /\ InUse < PoolSize)
             => (made' = PoolSize /\ plast'.conn \in 1..PoolSize)
      ]_vars

C19_Witness ==
    /\ plast.kind = "use"
    /\ nops >= 4
    /\ made = PoolSize
    /\ InUse = PoolSize
    /\ plast.conn \in 1..PoolSize

\* ------------------------------------------- instances made before the accessors
\* A program that constructs and assigns instances before and after its
\* first ORM call installs the accessors, and reads their reference fields.
InitLate == Start(Fresh)

NextLate ==
    \/ nops < MaxLateOps /\ \E c \in Classes : \E vals \in Inputs(c) : New(c, vals)
    \/ nops < MaxLateOps /\ \E c \in Classes : Resolve(c)
    \/ nops < MaxLateOps /\ \E i \in roots, f \in RefNames : ReadRef(i, f)
    \/ nops < MaxLateOps /\ \E i \in roots, f \in RefNames, v \in RefInputs : WriteRef(i, f, v)
    \/ nops < MaxLateOps /\ \E i \in roots : Update(i)
    \/ nops < MaxLateOps /\ \E i \in roots : Delete(i)

SpecLate == InitLate /\ [][NextLate]_vars

\* The value of field f that instance i got before the accessor of f was
\* installed and that no accessor has touched since; Absent if there is none
PreExisting(i, f) ==
    IF HasDescriptor(World, heap[i].cls, f) /\ known[i].ov[f] = Absent
    THEN heap[i].dict[f]
    ELSE Absent

\* C20 as stated: reading a reference field through its accessor, when the
\* instance holds a value for it from before the accessor was installed and
\* no accessor has stored another since, returns that value without raising;
\* the value may be None, also on a field without a declared default.
C20_PreExisting ==
    [][(nops' = nops + 1 /\ lastOp'.kind = "read"
           /\ PreExisting(lastOp'.inst, lastOp'.fld) # Absent)
          => (lastOp'.err = "" /\ lastOp'.ret = PreExisting(lastOp'.inst, lastOp'.fld))
      ]_vars

\* C21 as stated: a builder that has been executed accepts no further join
\* or where, and a builder that has a filter accepts no join: such a call
\* raises.
C21_BuilderStates ==
    [][(nops' = nops + 1 /\ qlast'.kind \in {"join", "where"}
           /\ \/ qlast'.b \in called
              \/ qlast'.kind = "join" /\ sel[qlast'.b].where_clauses # << >>)
          => qlast'.err # ""
      ]_vars

\* The four join lists of builder b have one length
EqualLengths(b) ==
    /\ Len(b.join_attributes) = Len(b.join_tables)
    /\ Len(b.join_tables) = Len(b.join_aliases)
    /\ Len(b.join_aliases) = Len(b.join_other_attributes)

\* C22 as stated: a join that passes the argument checks and is then rejected
\* (unknown attribute, field of a type that is no record type, left and right
\* types differ) leaves the join lists of the builder of equal length and its
\* compiled statement and parameters as they were.
C22_RejectedJoin ==
    [][(JoinStep /\ qlast'.check = 0 /\ qlast'.err # "")
          => (/\ EqualLengths(sel'[qlast'.b])
              /\ get_statement(sel'[qlast'.b]) = get_statement(Joined)
              /\ sel'[qlast'.b].parameters = Joined.parameters)
      ]_vars

\* The instances that have an entry in the state store
Entries == {s \in Slots : known[s].present}

\* C23 as stated: update(instance) and delete(instance) on an instance that
\* has no entry in the state store fail and leave the store with the entries
\* it had.
C23_LookupCreatesNothing ==
    [][(/\ nops' = nops + 1
        /\ lastOp'.kind \in {"update", "delete"}
        /\ lastOp'.inst \notin Entries)
          => (lastOp'.err # "" /\ Entries' = Entries)
      ]_vars

\* The read recorded in lastOp' found a row id in the state record of its field
ReadOfKey ==
    /\ nops' = nops + 1
    /\ lastOp'.kind = "read"
    /\ known[lastOp'.inst].ov[lastOp'.fld].t = "key"

\* C24: a read of a reference field whose state record holds a row id sends
\* one SELECT by that id to the referenced table and leaves the instance and
\* its state record as they were; when it succeeds it returns a new instance
\* of that row, so a second read right after the first sends a second SELECT
\* and returns another instance with equal contents.
C24_FetchEveryRead ==
    [][ReadOfKey =>
        /\ Cardinality(Selects(lastOp'.log)) = 1
        /\ \A k \in Selects(lastOp'.log) :
              /\ lastOp'.log[k].arg = known[lastOp'.inst].ov[lastOp'.fld].v
              /\ lastOp'.log[k].table =
                    Fields(lastOp'.cls)[FieldIdx(lastOp'.cls, lastOp'.fld)].target
        /\ known'[lastOp'.inst] = known[lastOp'.inst]
        /\ heap'[lastOp'.inst] = heap[lastOp'.inst]
        /\ lastOp'.err = "" =>
              /\ lastOp'.ret.t = "obj"
              /\ lastOp'.ret.v \notin Live
              /\ known'[lastOp'.ret.v].rowid = known[lastOp'.inst].ov[lastOp'.fld]
              /\ (/\ lastOp.kind = "read" /\ lastOp.err = ""
                  /\ lastOp.inst = lastOp'.inst /\ lastOp.fld = lastOp'.fld)
                    => (/\ lastOp'.ret # lastOp.ret
                        /\ heap'[lastOp'.ret.v] = heap'[lastOp.ret.v]
                        /\ known'[lastOp'.ret.v] = known'[lastOp.ret.v])
      ]_vars

C24_Witness ==
    /\ lastOp.kind = "read"
    /\ lastOp.err = ""
    /\ known[lastOp.inst].ov[lastOp.fld].t = "key"
    /\ lastOp.ret.t = "obj"
    /\ \E s \in Live \ {lastOp.ret.v} :
          /\ heap[s] = heap[lastOp.ret.v]
          /\ known[s] = known[lastOp.ret.v]
    /\ Cardinality(Selects(lastOp.log)) = 1

\* ------------------------------------------------- reference field accessors
\* Reading, assigning and clearing the reference fields of instances read
\* from a populated store.
InitAccess == InitRead

NextAccess ==
    \/ nops < MaxAccessOps /\ \E c \in Classes, id \in RowIds : GetById(c, id)
    \/ nops < MaxAccessOps /\ \E i \in roots, f \in RefNames : ReadRef(i, f)
    \/ nops < MaxAccessOps /\ \E i \in roots, f \in RefNames, v \in RefInputs : WriteRef(i, f, v)
    \/ nops < MaxAccessOps /\ \E i \in roots, f \in RefNames : ClearRef(i, f)

SpecAccess == InitAccess /\ [][NextAccess]_vars

\* The override of the field the call recorded in lastOp' is about, before
\* the call and after it
Override == known[lastOp'.inst].ov[lastOp'.fld]
OverrideAfter == known'[lastOp'.inst].ov[lastOp'.fld]
Declared == Fields(lastOp'.cls)[FieldIdx(lastOp'.cls, lastOp'.fld)]

\* C25: for one reference field of one instance, a write stores its value as
\* the override, whatever was there; a clear of an override removes it; a
\* read changes nothing and returns the override, or the record fetched for
\* it when it is a row id; with no override it returns the declared default
\* (None) when the field has one and fails when it has none.
C25_AccessorStates ==
    [][nops' = nops + 1 =>
        /\ lastOp'.kind = "write" => (lastOp'.err = "" /\ OverrideAfter = lastOp'.ret)
        /\ (lastOp'.kind = "clear" /\ Override # Absent)
              => (lastOp'.err = "" /\ OverrideAfter = Absent)
        /\ lastOp'.kind = "read" =>
              /\ OverrideAfter = Override
              /\ IF Override = Absent
                 THEN IF Declared.dflt THEN lastOp'.err = "" /\ lastOp'.ret = None
                      ELSE lastOp'.err # ""
                 ELSE IF Override.t = "key"
                 THEN lastOp'.err = "" =>
                         (/\ lastOp'.ret.t = "obj"
                          /\ heap'[lastOp'.ret.v].cls = Declared.target
                          /\ known'[lastOp'.ret.v].rowid = Override)
                 ELSE lastOp'.err = "" /\ lastOp'.ret = Override
      ]_vars

C25_Witness ==
    /\ lastOp.kind = "read"
    /\ lastOp.fld = "some_foo"
    /\ lastOp.err = "KeyError"
    /\ known[lastOp.inst].rowid # None
    /\ known[lastOp.inst].ov["some_foo"] = Absent
    /\ known[lastOp.inst].ov["other_foo"].t = "obj"

\* C26: the pool never holds more than PoolSize idle connections; use() on
\* an empty pool takes a new connection from the factory, and a release that
\* finds PoolSize idle connections leaves the idle list as it is.
C26_IdleBound ==
    [][/\ Len(pool) <= PoolSize
       /\ Len(pool') <= PoolSize
       /\ (nops' = nops + 1 /\ plast'.kind = "use" /\ pool = << >>)
             => (made' = made + 1 /\ plast'.conn = made' /\ pool' = << >>)
       /\ (/\ nops' = nops + 1 /\ plast'.kind = "scope"
           /\ \E k \in 1..Len(plast'.calls) : plast'.calls[k] = "release"
           /\ Len(pool) = PoolSize)
             => pool' = pool
      ]_vars

C26_Witness ==
    /\ plast.kind = "scope"
    /\ \E k \in 1..Len(plast.calls) : plast.calls[k] = "release"
    /\ made > PoolSize
    /\ InUse = 0
    /\ Len(pool) = PoolSize

\* No connection occurs twice in the idle list
Distinct(idle) == \A j, k \in 1..Len(idle) : j # k => idle[j] # idle[k]

\* C27 as stated: the idle list never holds a connection twice, and use()
\* never hands out a connection that an earlier use() handed out and that
\* has not been released since; a manager may be entered by several scopes,
\* each of which exits it.
C27_OneHolder ==
    [][/\ Distinct(pool)
       /\ Distinct(pool')
       /\ (nops' = nops + 1 /\ plast'.kind = "use") => inuse[plast'.conn] = 0
      ]_vars

\* C28 as stated: insert(instance) comes to an end without exhausting the
\* call stack, also when unpersisted instances refer to each other in a
\* cycle, and sends at most one INSERT for an instance; when it succeeds it
\* has sent one for the instance itself.
C28_InsertTerminates ==
    [][(nops' = nops + 1 /\ lastOp'.kind = "insert") =>
        /\ lastOp'.err # "RecursionError"
        /\ \A d \in Slots : InsertsOf(lastOp'.log, d) <= 1
        /\ lastOp'.err = "" => InsertsOf(lastOp'.log, lastOp'.inst) = 1
      ]_vars

\* The rows of table c that the call recorded in lastOp' wrote
Written(c) == {k \in RowIds : tables'[c].rows[k] # NoRow /\ tables'[c].rows[k] # tables[c].rows[k]}

\* C29 as stated: every non-null reference column of a row written by insert
\* or update holds the row id of a row that the referenced table has once
\* the call is over.
C29_NoDanglingWrite ==
    [][(nops' = nops + 1 /\ lastOp'.kind \in {"insert", "update"}) =>
        \A c \in Classes : \A k \in Written(c) : \A f \in OwnRefs(c) :
            tables'[c].rows[k][f].t = "int" =>
                tables'[Fields(c)[FieldIdx(c, f)].target].rows[tables'[c].rows[k][f].v] # NoRow
      ]_vars

\* C30: a join or where call changes no builder but the one it is called on,
\* so a join leaves the nested query as it was and later calls on the nested
\* query leave the outer builder's statement and parameters as they were; a
\* successful join with a nested query adds the nested query's statement as
\* compiled at that moment and puts its parameters before the builder's own.
C30_NestedFixedAtJoin ==
    [][(nops' = nops + 1 /\ qlast'.kind \in {"join", "where"}) =>
        /\ \A b \in (1..Len(sel)) \ {qlast'.b} :
              /\ sel'[b] = sel[b]
              /\ get_statement(sel'[b]) = get_statement(sel[b])
        /\ (qlast'.kind = "join" /\ qlast'.err = "" /\ qlast'.other.kind = "select") =>
              \E q \in (1..Len(sel)) \ {qlast'.b} :
                  /\ sel'[qlast'.b].join_tables
                        = Append(Joined.join_tables,
                                 [name |-> "", sub |-> << get_statement(sel[q]) >>])
                  /\ sel'[qlast'.b].parameters = sel[q].parameters \o Joined.parameters
      ]_vars

\* The nested query was given another filter after it was joined: the outer
\* builder holds the statement the nested query had when it was joined.
C30_Witness ==
    /\ qlast.kind = "where"
    /\ \E b \in (1..Len(sel)) \ {qlast.b} : \E k \in 1..Len(sel[b].join_tables) :
          /\ sel[b].join_tables[k].sub # << >>
          /\ sel[b].join_tables[k].sub[1].table = sel[qlast.b].cls
          /\ sel[b].join_tables[k].sub[1] # get_statement(sel[qlast.b])
          /\ Len(sel[b].parameters) < Len(sel[qlast.b].parameters)

====
